---- MODULE Spec2Model ----
(***************************************************************************)
(* A model of the vacancy collection pipeline of src/src/data_collector.py *)
(* (class DataCollector): the cache check, page discovery, ID harvesting,  *)
(* the thread-pool detail fetch, the assembly of the columnar result and   *)
(* the cache write of collect_vacancies, and the per-record normalisation  *)
(* of get_vacancy.                                                         *)
(***************************************************************************)
EXTENDS Integers, Sequences, FiniteSets, TLC

(***************************************************************************)
(* Bounds of the model.                                                    *)
(***************************************************************************)
\* largest raw salary bound of a source salary block
MaxRaw == 4
\* largest page count the remote service reports
MaxPages == 2
\* largest number of IDs harvested in one run
MaxIds == 2
\* largest max_workers a caller passes
MaxWorkers == 2

(***************************************************************************)
(* Python values.  An optional value (None or v) is the empty or the       *)
(* one-element sequence, so that None is never equal to a present value,   *)
(* 0 included.                                                             *)
(***************************************************************************)
None == <<>>

Some(v) == <<v>>

IsNone(o) == o = <<>>

\* A rational number is a pair <<numerator, denominator>>, denominator > 0.
\* round(x) of Python: the nearest integer, a tie going to the even one.
PyRound(num, den) ==
    LET fl == num \div den
        r2 == 2 * (num - fl * den)
    IN  IF r2 < den THEN fl
        ELSE IF r2 > den THEN fl + 1
        ELSE IF fl % 2 = 0 THEN fl ELSE fl + 1

\* int(x) of Python: truncation toward zero.
PyInt(num, den) ==
    IF num >= 0 THEN num \div den ELSE -((-num) \div den)

(***************************************************************************)
(* The rate table handed to the constructor (self._rates): currency code   *)
(* to conversion factor, as exact rationals.  The factors are the caller's *)
(* input; these are binary fractions, for which the floating-point         *)
(* quotient of line 83 and the exact one have the same integer part.       *)
(***************************************************************************)
Currencies == {"RUR", "USD", "EUR"}

Rates ==
    [c \in Currencies |->
        CASE c = "RUR" -> <<1, 1>>
          [] c = "USD" -> <<1, 64>>
          [] c = "EUR" -> <<3, 4>>]

(***************************************************************************)
(* DataCollector.clean_tags: re.sub("<.*?>", "", html_text).  A text is a  *)
(* sequence of characters.  A match starts at a "<" and ends at the first  *)
(* ">" after it, and "." matches no newline, so a "<" whose first ">" lies *)
(* beyond a newline (or that has no ">") starts no match and is kept.      *)
(***************************************************************************)
Newline == "\n"

\* index of the ">" closing a tag opened at i, or 0 when no tag starts at i
RECURSIVE TagEnd(_, _)
TagEnd(s, j) ==
    IF j > Len(s) THEN 0
    ELSE IF s[j] = ">" THEN j
    ELSE IF s[j] = Newline THEN 0
    ELSE TagEnd(s, j + 1)

RECURSIVE CleanFrom(_, _)
CleanFrom(s, i) ==
    IF i > Len(s) THEN <<>>
    ELSE IF s[i] = "<" /\ TagEnd(s, i + 1) # 0
         THEN CleanFrom(s, TagEnd(s, i + 1) + 1)
         ELSE <<s[i]>> \o CleanFrom(s, i + 1)

clean_tags(html_text) == CleanFrom(html_text, 1)

(***************************************************************************)
(* DataCollector.__convert_gross: 0.87 if is_gross else 1.  is_gross is    *)
(* salary.get("gross"): None, True or False; None is falsy.                *)
(***************************************************************************)
convert_gross(is_gross) ==
    IF is_gross = Some(TRUE) THEN <<87, 100>> ELSE <<1, 1>>

(***************************************************************************)
(* The salary loop of get_vacancy (lines 77-83), for one key k of from_to: *)
(* a bound that is not None becomes                                        *)
(* int(_value * salary[k] / self._rates[salary["currency"]]).              *)
(***************************************************************************)
\* faulty variant: "if salary[k]:" in place of "is not None"
BoundTruthy(salary, k) == ~IsNone(salary[k]) /\ salary[k][1] # 0

BoundPresent(salary, k) == ~IsNone(salary[k])

ConvertBound(salary, k) ==
    IF BoundPresent(salary, k)
    THEN LET g    == convert_gross(salary.gross)
             rate == Rates[salary.currency]
         IN  Some(PyInt(g[1] * salary[k][1] * rate[2], g[2] * rate[1]))
    ELSE None

\* from_to after the loop, with the number of rate-table lookups made
SalaryBlockTruthy(salary_opt) == ~IsNone(salary_opt)

FromTo(salary_opt) ==
    IF SalaryBlockTruthy(salary_opt)
    THEN LET salary == salary_opt[1]
         IN  [from |-> ConvertBound(salary, "from"),
              to |-> ConvertBound(salary, "to"),
              lookups |-> (IF BoundPresent(salary, "from") THEN 1 ELSE 0)
                        + (IF BoundPresent(salary, "to") THEN 1 ELSE 0)]
    ELSE [from |-> None, to |-> None, lookups |-> 0]

\* faulty variant: the flag taken from the converted bounds
HasSalaryFromBounds(salary_opt) ==
    /\ ~IsNone(salary_opt)
    /\ \/ BoundPresent(salary_opt[1], "from")
       \/ BoundPresent(salary_opt[1], "to")

\* salary is not None (line 90)
HasSalary(salary_opt) == ~IsNone(salary_opt)

(***************************************************************************)
(* DataCollector.get_vacancy: the ten-field tuple built from the detail    *)
(* record `vacancy` of vacancy_id, in the order of __DICT_KEYS.            *)
(***************************************************************************)
RECURSIVE SkillNames(_)
SkillNames(key_skills) ==
    IF key_skills = <<>> THEN <<>>
    ELSE <<Head(key_skills).name>> \o SkillNames(Tail(key_skills))

get_vacancy(vacancy_id, vacancy) ==
    LET from_to == FromTo(vacancy.salary)
    IN  << vacancy_id,
           vacancy.employer.name,
           vacancy.name,
           HasSalary(vacancy.salary),
           from_to.from,
           from_to.to,
           vacancy.experience.name,
           vacancy.schedule.name,
           SkillNames(vacancy.key_skills),
           clean_tags(vacancy.description) >>

(***************************************************************************)
(* The remote listing API.  GET {base}/{id} answers the detail record of   *)
(* an ID; what a search or page request answers is chosen by the service   *)
(* when the request is made (the actions below).                           *)
(***************************************************************************)
VacancyIds == {"a", "b"}

Salary(from, to, currency, gross) ==
    [from |-> from, to |-> to, currency |-> currency, gross |-> gross]

Vacancy(employer, name, salary, skills, description) ==
    [employer |-> [name |-> employer], name |-> name, salary |-> salary,
     experience |-> [name |-> "between1And3"], schedule |-> [name |-> "fullDay"],
     key_skills |-> skills, description |-> description]

RemoteDetail(id) ==
    IF id = "a"
    THEN Vacancy("Acme", "Engineer", None, <<[name |-> "TLA"]>>,
                 <<"<", "p", ">", "x", "<", "/", "p", ">">>)
    ELSE Vacancy("Bolt", "Analyst",
                 Some(Salary(Some(1), None, "RUR", Some(TRUE))),
                 <<>>, <<"y">>)

(***************************************************************************)
(* The caller's inputs of collect_vacancies.                               *)
(***************************************************************************)
Texts == {"FPGA", "ML"}

Areas == {1, 2}

Queries == [text : Texts, area : Areas]

(***************************************************************************)
(* The cache directory: one blob per hash of a query text.  A blob is      *)
(* absent, a complete pickle of a result, or what a dump that raised left  *)
(* behind: a file with nothing to read (pickle.load raises EOFError, "Ran  *)
(* out of input") or a pickle cut short inside (pickle.load raises         *)
(* UnpicklingError, "pickle data was truncated").                          *)
(***************************************************************************)
\* faulty variant: the hash taken of the text and the area
cache_hash_with_area(q) ==
    CASE q.text = "FPGA" /\ q.area = 1 -> "md5_FPGA_1"
      [] q.text = "FPGA" /\ q.area = 2 -> "md5_FPGA_2"
      [] q.text = "ML" /\ q.area = 1 -> "md5_ML_1"
      [] q.text = "ML" /\ q.area = 2 -> "md5_ML_2"

\* hashlib.md5(cache_name.encode()).hexdigest() of the query's text
cache_hash(q) ==
    CASE q.text = "FPGA" -> "md5_FPGA"
      [] q.text = "ML" -> "md5_ML"

CacheFiles == {cache_hash(q) : q \in Queries}

Absent == <<"absent">>

EmptyBlob == <<"empty">>

TruncatedBlob == <<"truncated">>

\* pickle.dump(result, file) that ran to its end
PickleDump(result) == <<"pickle", result>>

\* pickle.load(open(cache_file, "rb")): the value, or the exception raised
PickleLoad(blob) ==
    CASE blob = Absent -> [exc |-> "FileNotFoundError"]
      [] blob = EmptyBlob -> [exc |-> "EOFError"]
      [] blob = TruncatedBlob -> [exc |-> "UnpicklingError"]
      [] OTHER -> [exc |-> "", value |-> blob[2]]

\* faulty variant: a missing cache file is not passed over
CacheTryCatchesUnpickling(exc) == exc = "UnpicklingError"

\* except (FileNotFoundError, pickle.UnpicklingError): pass
CacheTryCatches(exc) == exc \in {"FileNotFoundError", "UnpicklingError"}

\* faulty variant: the refresh flag ignored
CacheIsReadAlways(refresh_flag) == TRUE

\* if not refresh: the cache file is opened and loaded
CacheIsRead(refresh_flag) == ~refresh_flag

(***************************************************************************)
(* The assembly of the columnar result (lines 153-157).                    *)
(***************************************************************************)
DICT_KEYS ==
    <<"Ids", "Employer", "Name", "Salary", "From", "To", "Experience",
      "Schedule", "Keys", "Description">>

RECURSIVE MinLen(_)
MinLen(rows) ==
    IF Len(rows) = 1 THEN Len(rows[1])
    ELSE LET m == MinLen(Tail(rows))
         IN  IF Len(rows[1]) < m THEN Len(rows[1]) ELSE m

\* faulty variant: the rows without a salary left out of the columns
UnzipDroppingNoSalary(rows) ==
    LET HasPay(row) == row[4]
        kept == SelectSeq(rows, HasPay)
    IN  IF kept = <<>> THEN <<>>
        ELSE [i \in 1..MinLen(kept) |-> [j \in 1..Len(kept) |-> kept[j][i]]]

\* faulty variant: no rows give one empty column per key
UnzipEmptyColumns(rows) ==
    IF rows = <<>> THEN [i \in 1..Len(DICT_KEYS) |-> <<>>]
    ELSE [i \in 1..MinLen(rows) |-> [j \in 1..Len(rows) |-> rows[j][i]]]

\* list(zip(*jobs_list)): one tuple per field position, none for no rows
Unzip(rows) ==
    IF rows = <<>> THEN <<>>
    ELSE [i \in 1..MinLen(rows) |-> [j \in 1..Len(rows) |-> rows[j][i]]]

\* result[key] = unzipped_list[idx] for every key; IndexError when short
AssembleRaises(unzipped_list) == Len(unzipped_list) < Len(DICT_KEYS)

ResultDict(unzipped_list) ==
    [key \in {DICT_KEYS[i] : i \in 1..Len(DICT_KEYS)} |->
        unzipped_list[CHOOSE i \in 1..Len(DICT_KEYS) : DICT_KEYS[i] = key]]

(***************************************************************************)
(* The state.                                                              *)
(***************************************************************************)
VARIABLES
    pc,           \* where collect_vacancies is: "idle", "cachecheck",
                  \* "discovery", "harvest", "submit", "fetch", "aborting",
                  \* "assemble", "cachewrite", "done", "failed"
    query,        \* the query argument
    refresh,      \* the refresh argument
    max_workers,  \* the max_workers argument
    cache,        \* the cache directory: cache file -> blob
    num_pages,    \* num_pages (line 131)
    idx,          \* idx of the harvesting loop (line 135)
    ids,          \* ids (line 134)
    futures,      \* the futures of executor.map, one per position of ids:
                  \* "queued", "running", "failed", "cancelled" or <<"done", r>>
    jobs_list,    \* jobs_list (line 143)
    result,       \* result (line 155), None before it is built
    returned,     \* the value returned to the caller, None before the return
    error,        \* the exception raised to the caller, "" when none
    requests,     \* the requests of this run in the order they were issued,
                  \* a page request with what it was answered
    completed,    \* the positions of ids in the order their fetches ended
    cache_loads,  \* the number of pickle.load calls of this run
    cache_before, \* the cache directory as it was when this run was called
    runs_left,    \* the calls of collect_vacancies still to be made
    written,      \* per query text, the query and the result of the latest
                  \* call that dumped its result for the text, None when
                  \* there is none or a later dump for the text raised
    limits,       \* what a behaviour is limited to: the queries asked, the
                  \* most workers, the most pages reported and the most
                  \* IDs listed in one run
    vacancy,      \* get_vacancy alone: the detail record it is given
    record,       \* get_vacancy alone: what it returned, None before the call
    lookups,      \* get_vacancy alone: the rate-table lookups of the call
    html_text,    \* clean_tags alone: the text it is given
    clean_text    \* clean_tags alone: what it returned, None before the call

vars ==
    << pc, query, refresh, max_workers, cache, num_pages, idx, ids, futures,
       jobs_list, result, returned, error, requests, completed, cache_loads,
       cache_before, runs_left, written, limits, vacancy, record, lookups, html_text,
       clean_text >>

run_vars ==
    << num_pages, idx, ids, futures, jobs_list, result, returned, error,
       requests, completed, cache_loads >>

vacancy_vars == << vacancy, record, lookups, html_text, clean_text >>

\* what only a call of collect_vacancies changes
call_vars == << runs_left, limits, cache_before, written >>

NoQuery == [text |-> "", area |-> 0]

\* all sequences over S of length at most n
RECURSIVE SeqsUpTo(_, _)
SeqsUpTo(S, n) ==
    IF n = 0 THEN {<<>>}
    ELSE LET shorter == SeqsUpTo(S, n - 1)
         IN  shorter \cup {Append(q, x) : q \in shorter, x \in S}

Positions == 1..Len(ids)

Running == {p \in Positions : futures[p] = <<"running">>}

Queued == {p \in Positions : futures[p] = <<"queued">>}

IsDone(f) == Len(f) = 2

(***************************************************************************)
(* collect_vacancies is called.                                            *)
(***************************************************************************)
StartRun(q, r, w) ==
    /\ pc \in {"idle", "done", "failed"}
    /\ runs_left > 0
    /\ q \in limits.queries
    /\ w <= limits.workers
    /\ runs_left' = runs_left - 1
    /\ pc' = "cachecheck"
    /\ query' = q
    /\ refresh' = r
    /\ max_workers' = w
    /\ num_pages' = 0
    /\ idx' = 0
    /\ ids' = <<>>
    /\ futures' = <<>>
    /\ jobs_list' = <<>>
    /\ result' = None
    /\ returned' = None
    /\ error' = ""
    /\ requests' = <<>>
    /\ completed' = <<>>
    /\ cache_loads' = 0
    /\ cache_before' = cache
    /\ UNCHANGED << cache, written, limits, vacancy_vars >>

(***************************************************************************)
(* Lines 118-127: without refresh the cache file is loaded; the value is   *)
(* returned, FileNotFoundError and UnpicklingError are passed over, any    *)
(* other exception leaves the function.                                    *)
(***************************************************************************)
CacheCheck ==
    /\ pc = "cachecheck"
    /\ IF CacheIsRead(refresh)
       THEN LET loaded == PickleLoad(cache[cache_hash(query)])
            IN  /\ cache_loads' = cache_loads + 1
                /\ IF loaded.exc = ""
                   THEN /\ pc' = "done"
                        /\ returned' = Some(loaded.value)
                        /\ error' = error
                   ELSE IF CacheTryCatches(loaded.exc)
                   THEN /\ pc' = "discovery"
                        /\ UNCHANGED << returned, error >>
                   ELSE /\ pc' = "failed"
                        /\ error' = loaded.exc
                        /\ returned' = returned
       ELSE /\ pc' = "discovery"
            /\ UNCHANGED << cache_loads, returned, error >>
    /\ UNCHANGED << query, refresh, max_workers, cache, num_pages, idx, ids,
                    futures, jobs_list, result, requests, completed,
                    call_vars, vacancy_vars >>

(***************************************************************************)
(* Lines 129-131: one request without a page parameter; its "pages".       *)
(***************************************************************************)
Discover(pages) ==
    /\ pc = "discovery"
    /\ pages <= limits.pages
    /\ requests' = Append(requests, <<"search">>)
    /\ num_pages' = pages
    /\ idx' = 0
    /\ ids' = <<>>
    /\ pc' = "harvest"
    /\ UNCHANGED << query, refresh, max_workers, cache, futures, jobs_list,
                    result, returned, error, completed, cache_loads,
                    call_vars, vacancy_vars >>

\* the request fails, or its JSON has no "pages"
DiscoverFails ==
    /\ pc = "discovery"
    /\ requests' = Append(requests, <<"search">>)
    /\ pc' = "failed"
    /\ error' = "RequestError"
    /\ UNCHANGED << query, refresh, max_workers, cache, num_pages, idx, ids,
                    futures, jobs_list, result, returned, completed,
                    cache_loads, call_vars, vacancy_vars >>

(***************************************************************************)
(* Lines 133-140: for idx in range(num_pages + 1), one page request each.  *)
(***************************************************************************)
\* faulty variant: range(num_pages)
InPageRangeExclusive(i, pages) == i < pages

\* range(num_pages + 1) still has the index i
InPageRange(i, pages) == i < pages + 1

\* faulty variant: an ID already harvested is not added again
RECURSIVE ExtendIdsUnique(_, _)
ExtendIdsUnique(old, items) ==
    IF items = <<>> THEN old
    ELSE IF \E i \in 1..Len(old) : old[i] = Head(items)
         THEN ExtendIdsUnique(old, Tail(items))
         ELSE ExtendIdsUnique(Append(old, Head(items)), Tail(items))

\* ids.extend(x["id"] for x in data["items"])
ExtendIds(old, items) == old \o items

\* after the page idx: the next index, or the end of the loop
AfterPage ==
    /\ idx' = idx + 1
    /\ pc' = IF InPageRange(idx + 1, num_pages) THEN "harvest" ELSE "submit"

HarvestPage(items) ==
    /\ pc = "harvest"
    /\ InPageRange(idx, num_pages)
    /\ Len(ids) + Len(items) <= limits.ids
    /\ requests' = Append(requests, <<"page", idx, "items", items>>)
    /\ ids' = ExtendIds(ids, items)
    /\ AfterPage
    /\ UNCHANGED << query, refresh, max_workers, cache, num_pages, futures,
                    jobs_list, result, returned, error, completed,
                    cache_loads, call_vars, vacancy_vars >>

\* faulty variant: the loop goes on to the next index instead of breaking
HarvestNoItemsContinues ==
    /\ pc = "harvest"
    /\ InPageRange(idx, num_pages)
    /\ requests' = Append(requests, <<"page", idx, "noitems", <<>>>>)
    /\ AfterPage
    /\ UNCHANGED << query, refresh, max_workers, cache, num_pages, ids,
                    futures, jobs_list, result, returned, error, completed,
                    cache_loads, call_vars, vacancy_vars >>

\* "items" not in data: break
HarvestNoItems ==
    /\ pc = "harvest"
    /\ InPageRange(idx, num_pages)
    /\ requests' = Append(requests, <<"page", idx, "noitems", <<>>>>)
    /\ pc' = "submit"
    /\ idx' = idx
    /\ UNCHANGED << query, refresh, max_workers, cache, num_pages, ids,
                    futures, jobs_list, result, returned, error, completed,
                    cache_loads, call_vars, vacancy_vars >>

HarvestFails ==
    /\ pc = "harvest"
    /\ InPageRange(idx, num_pages)
    /\ requests' = Append(requests, <<"page", idx, "error", <<>>>>)
    /\ pc' = "failed"
    /\ error' = "RequestError"
    /\ UNCHANGED << query, refresh, max_workers, cache, num_pages, idx, ids,
                    futures, jobs_list, result, returned, completed,
                    cache_loads, call_vars, vacancy_vars >>

(***************************************************************************)
(* Lines 142-151: executor.map(self.get_vacancy, ids) submits one future   *)
(* per position of ids; at most max_workers threads take the queued        *)
(* futures first in, first out; the loop takes the results.                *)
(***************************************************************************)
SubmitAll ==
    /\ pc = "submit"
    /\ futures' = [p \in 1..Len(ids) |-> <<"queued">>]
    /\ jobs_list' = <<>>
    /\ pc' = "fetch"
    /\ UNCHANGED << query, refresh, max_workers, cache, num_pages, idx, ids,
                    result, returned, error, requests, completed,
                    cache_loads, call_vars, vacancy_vars >>

\* faulty variant: a queued future is started whatever the pool size
WorkerFreeAlways(running, workers) == TRUE

\* a thread of the pool is free for another future
WorkerFree(running, workers) == Cardinality(running) < workers

\* the future a free thread takes: the first one queued
NextQueued(queued) == CHOOSE p \in queued : \A o \in queued : p <= o

StartFetch ==
    /\ pc = "fetch"
    /\ Queued # {}
    /\ WorkerFree(Running, max_workers)
    /\ LET p == NextQueued(Queued)
       IN  /\ futures' = [futures EXCEPT ![p] = <<"running">>]
           /\ requests' = Append(requests, <<"detail", p>>)
    /\ UNCHANGED << pc, query, refresh, max_workers, cache, num_pages, idx,
                    ids, jobs_list, result, returned, error, completed,
                    cache_loads, call_vars, vacancy_vars >>

\* get_vacancy of position p returns
FinishFetch(p) ==
    /\ pc \in {"fetch", "aborting"}
    /\ p \in Running
    /\ futures' = [futures EXCEPT
                      ![p] = <<"done", get_vacancy(ids[p], RemoteDetail(ids[p]))>>]
    /\ completed' = Append(completed, p)
    /\ UNCHANGED << pc, query, refresh, max_workers, cache, num_pages, idx,
                    ids, jobs_list, result, returned, error, requests,
                    cache_loads, call_vars, vacancy_vars >>

\* get_vacancy of position p raises (the request fails, a field is missing)
FetchFails(p) ==
    /\ pc \in {"fetch", "aborting"}
    /\ p \in Running
    /\ futures' = [futures EXCEPT ![p] = <<"failed">>]
    /\ completed' = Append(completed, p)
    /\ UNCHANGED << pc, query, refresh, max_workers, cache, num_pages, idx,
                    ids, jobs_list, result, returned, error, requests,
                    cache_loads, call_vars, vacancy_vars >>

\* faulty variant: the results taken as the fetches end (as_completed)
NextResultAsCompleted(jobs, done_order) ==
    IF Len(done_order) > Len(jobs) THEN done_order[Len(jobs) + 1] ELSE 0

\* the position whose result the loop over executor.map takes next
NextResult(jobs, done_order) == Len(jobs) + 1

\* jobs_list.append(vacancy)
Collect ==
    /\ pc = "fetch"
    /\ LET n == NextResult(jobs_list, completed)
       IN  /\ n \in Positions
           /\ IsDone(futures[n])
           /\ jobs_list' = Append(jobs_list, futures[n][2])
    /\ UNCHANGED << pc, query, refresh, max_workers, cache, num_pages, idx,
                    ids, futures, result, returned, error, requests,
                    completed, cache_loads, call_vars, vacancy_vars >>

\* faulty variant: a fetch that raised is made again by the loop
CollectRaisesRetrying ==
    /\ pc = "fetch"
    /\ LET n == NextResult(jobs_list, completed)
       IN  /\ n \in Positions
           /\ futures[n] = <<"failed">>
           /\ jobs_list' = Append(jobs_list,
                                  get_vacancy(ids[n], RemoteDetail(ids[n])))
           /\ requests' = Append(requests, <<"detail", n>>)
    /\ UNCHANGED << pc, query, refresh, max_workers, cache, num_pages, idx,
                    ids, futures, result, returned, error, completed,
                    cache_loads, call_vars, vacancy_vars >>

\* the next future raised: the iterator cancels the futures still queued
CollectRaises ==
    /\ pc = "fetch"
    /\ LET n == NextResult(jobs_list, completed)
       IN  /\ n \in Positions
           /\ futures[n] = <<"failed">>
    /\ futures' = [p \in Positions |->
                      IF futures[p] = <<"queued">> THEN <<"cancelled">>
                      ELSE futures[p]]
    /\ pc' = "aborting"
    /\ UNCHANGED << query, refresh, max_workers, cache, num_pages, idx, ids,
                    jobs_list, result, returned, error, requests, completed,
                    cache_loads, call_vars, vacancy_vars >>

\* the with block waits for the running futures, then the exception leaves
AbortJoin ==
    /\ pc = "aborting"
    /\ Running = {}
    /\ pc' = "failed"
    /\ error' = "FetchError"
    /\ UNCHANGED << query, refresh, max_workers, cache, num_pages, idx, ids,
                    futures, jobs_list, result, returned, requests,
                    completed, cache_loads, call_vars, vacancy_vars >>

\* faulty variant: the loop ends as soon as no future is queued
FetchLoopEndEarly ==
    /\ pc = "fetch"
    /\ Queued = {}
    /\ pc' = "assemble"
    /\ UNCHANGED << query, refresh, max_workers, cache, num_pages, idx, ids,
                    futures, jobs_list, result, returned, error, requests,
                    completed, cache_loads, call_vars, vacancy_vars >>

\* every result is taken: the with block ends
FetchLoopEnd ==
    /\ pc = "fetch"
    /\ Len(jobs_list) = Len(ids)
    /\ pc' = "assemble"
    /\ UNCHANGED << query, refresh, max_workers, cache, num_pages, idx, ids,
                    futures, jobs_list, result, returned, error, requests,
                    completed, cache_loads, call_vars, vacancy_vars >>

(***************************************************************************)
(* Lines 153-157: the rows are turned into one column per key.             *)
(***************************************************************************)
Assemble ==
    /\ pc = "assemble"
    /\ LET unzipped_list == Unzip(jobs_list)
       IN  IF AssembleRaises(unzipped_list)
           THEN /\ pc' = "failed"
                /\ error' = "IndexError"
                /\ result' = result
           ELSE /\ pc' = "cachewrite"
                /\ result' = Some(ResultDict(unzipped_list))
                /\ error' = error
    /\ UNCHANGED << query, refresh, max_workers, cache, num_pages, idx, ids,
                    futures, jobs_list, returned, requests, completed,
                    cache_loads, call_vars, vacancy_vars >>

(***************************************************************************)
(* Lines 159-160: pickle.dump(result, open(cache_file, "wb")); return.     *)
(* open truncates the file before dump writes.                             *)
(***************************************************************************)
WriteCache ==
    /\ pc = "cachewrite"
    /\ cache' = [cache EXCEPT ![cache_hash(query)] = PickleDump(result[1])]
    /\ written' = [written EXCEPT
                       ![query.text] = Some([query |-> query,
                                             result |-> result[1]])]
    /\ returned' = result
    /\ pc' = "done"
    /\ UNCHANGED << query, refresh, max_workers, num_pages, idx, ids,
                    futures, jobs_list, result, error, requests, completed,
                    cache_loads, runs_left, limits, cache_before,
                    vacancy_vars >>

\* open raises (no cache directory, no permission): nothing is written
WriteOpenFails ==
    /\ pc = "cachewrite"
    /\ pc' = "failed"
    /\ error' = "OSError"
    /\ UNCHANGED << query, refresh, max_workers, cache, num_pages, idx, ids,
                    futures, jobs_list, result, returned, requests,
                    completed, cache_loads, call_vars, vacancy_vars >>

\* dump raises after open (the disk is full): the file is left empty or cut
WriteDumpFails(left) ==
    /\ pc = "cachewrite"
    /\ left \in {EmptyBlob, TruncatedBlob}
    /\ cache' = [cache EXCEPT ![cache_hash(query)] = left]
    /\ written' = [written EXCEPT ![query.text] = None]
    /\ pc' = "failed"
    /\ error' = "OSError"
    /\ UNCHANGED << query, refresh, max_workers, num_pages, idx, ids,
                    futures, jobs_list, result, returned, requests,
                    completed, cache_loads, runs_left, limits, cache_before,
                    vacancy_vars >>

(***************************************************************************)
(* get_vacancy alone, applied to a detail record.                          *)
(***************************************************************************)
ApplyGetVacancy ==
    /\ record = None
    /\ vacancy # None
    /\ record' = Some(get_vacancy("a", vacancy[1]))
    /\ lookups' = FromTo(vacancy[1].salary).lookups
    /\ UNCHANGED << pc, query, refresh, max_workers, cache, run_vars,
                    call_vars, vacancy, html_text, clean_text >>

(***************************************************************************)
(* clean_tags alone, applied to a text.                                    *)
(***************************************************************************)
ApplyCleanTags ==
    /\ clean_text = None
    /\ clean_text' = Some(clean_tags(html_text))
    /\ UNCHANGED << pc, query, refresh, max_workers, cache, run_vars,
                    call_vars, vacancy, record, lookups, html_text >>

(***************************************************************************)
(* The specifications.                                                     *)
(***************************************************************************)
\* the most calls of collect_vacancies in a behaviour of SpecRuns
MaxRuns == 2
\* the largest page count reported in a run of SpecRuns
MaxRunPages == 0
\* the most IDs listed in a run of SpecRuns
MaxRunIds == 1
\* the largest max_workers of a run of SpecRuns
MaxRunWorkers == 1

Limits(queries, workers, pages, n) ==
    [queries |-> queries, workers |-> workers, pages |-> pages, ids |-> n]

InitPipeline(runs, lim) ==
    /\ pc = "idle"
    /\ query = NoQuery
    /\ refresh = FALSE
    /\ max_workers = 1
    /\ cache = [f \in CacheFiles |-> Absent]
    /\ num_pages = 0
    /\ idx = 0
    /\ ids = <<>>
    /\ futures = <<>>
    /\ jobs_list = <<>>
    /\ result = None
    /\ returned = None
    /\ error = ""
    /\ requests = <<>>
    /\ completed = <<>>
    /\ cache_loads = 0
    /\ cache_before = [f \in CacheFiles |-> Absent]
    /\ runs_left = runs
    /\ written = [t \in Texts |-> None]
    /\ limits = lim

NoVacancy ==
    /\ vacancy = None
    /\ record = None
    /\ lookups = 0

NoText ==
    /\ html_text = <<>>
    /\ clean_text = None

\* one call on an empty cache directory
Init ==
    /\ InitPipeline(1, Limits({[text |-> "FPGA", area |-> 1]},
                              MaxWorkers, MaxPages, MaxIds))
    /\ NoVacancy
    /\ NoText

\* the queries of SpecRuns: one text with two areas, and another text
RunQueries == Queries \ {[text |-> "ML", area |-> 2]}

\* consecutive calls, the cache directory kept between them
InitRuns ==
    /\ InitPipeline(MaxRuns,
                    Limits(RunQueries, MaxRunWorkers, MaxRunPages, MaxRunIds))
    /\ NoVacancy
    /\ NoText

Next ==
    \/ \E q \in Queries, r \in BOOLEAN, w \in 1..limits.workers :
          StartRun(q, r, w)
    \/ CacheCheck
    \/ \E pages \in 0..limits.pages : Discover(pages)
    \/ DiscoverFails
    \/ \E items \in SeqsUpTo(VacancyIds, limits.ids) : HarvestPage(items)
    \/ HarvestNoItems
    \/ HarvestFails
    \/ SubmitAll
    \/ StartFetch
    \/ \E p \in Positions : FinishFetch(p)
    \/ \E p \in Positions : FetchFails(p)
    \/ Collect
    \/ CollectRaises
    \/ AbortJoin
    \/ FetchLoopEnd
    \/ Assemble
    \/ WriteCache
    \/ WriteOpenFails
    \/ \E left \in {EmptyBlob, TruncatedBlob} : WriteDumpFails(left)

Spec == Init /\ [][Next]_vars

SpecRuns == InitRuns /\ [][Next]_vars

\* the detail records get_vacancy is applied to
OptRaw == {None} \cup {Some(v) : v \in 0..MaxRaw}

SalaryBlocks ==
    {Salary(f, t, c, g) :
        f \in OptRaw, t \in OptRaw, c \in Currencies,
        g \in {None, Some(TRUE), Some(FALSE)}}

DetailRecords ==
    {Vacancy("Acme", "Engineer", s, <<[name |-> "TLA"]>>, <<"<", "b", ">", "x">>) :
        s \in {None} \cup {Some(b) : b \in SalaryBlocks}}

InitVacancy ==
    /\ InitPipeline(0, Limits({}, 0, 0, 0))
    /\ vacancy \in {Some(v) : v \in DetailRecords}
    /\ record = None
    /\ lookups = 0
    /\ NoText

NextVacancy == ApplyGetVacancy

SpecVacancy == InitVacancy /\ [][NextVacancy]_vars

\* the longest text clean_tags is applied to
MaxTextLen == 4

\* the characters of the texts: the tag delimiters, a letter, a line break
TextChars == {"<", ">", "a", Newline}

InitTags ==
    /\ InitPipeline(0, Limits({}, 0, 0, 0))
    /\ NoVacancy
    /\ html_text \in SeqsUpTo(TextChars, MaxTextLen)
    /\ clean_text = None

NextTags == ApplyCleanTags

SpecTags == InitTags /\ [][NextTags]_vars

(***************************************************************************)
(* Properties.                                                             *)
(***************************************************************************)
Keys == {DICT_KEYS[i] : i \in 1..Len(DICT_KEYS)}

IsSearch(r) == Len(r) = 1

IsDetail(r) == Len(r) = 2

IsPage(r) == Len(r) = 4

PageRequests == SelectSeq(requests, IsPage)

\* the item IDs the page responses of the log carried, in the order received
RECURSIVE ConcatItems(_)
ConcatItems(log) ==
    IF log = <<>> THEN <<>>
    ELSE (IF IsPage(Head(log)) THEN Head(log)[4] ELSE <<>>)
         \o ConcatItems(Tail(log))

RECURSIVE SumItems(_)
SumItems(log) ==
    IF log = <<>> THEN 0
    ELSE (IF IsPage(Head(log)) THEN Len(Head(log)[4]) ELSE 0)
         + SumItems(Tail(log))

\* the run returned a result it collected from the remote service
Collected == pc = "done" /\ requests # <<>>

\* C1: whatever the order in which the detail fetches end, row i of every
\* column of the returned result is the record fetched for position i of
\* ids, and the "Ids" column is ids itself.
C1_RowOrderIsIdOrder ==
    Collected =>
        /\ returned[1]["Ids"] = ids
        /\ \A j \in 1..Len(DICT_KEYS) : \A i \in 1..Len(ids) :
              /\ Len(returned[1][DICT_KEYS[j]]) >= i
              /\ returned[1][DICT_KEYS[j]][i] = futures[i][2][j]

\* the fetch of position 2 ended before that of position 1
C1_Witness ==
    /\ Collected
    /\ ids = <<"a", "b">>
    /\ completed = <<2, 1>>
    /\ returned[1]["Ids"] = <<"a", "b">>
    /\ returned[1]["Employer"] = <<"Acme", "Bolt">>

\* C2: for a non-empty ids the returned result has the ten columns of
\* DICT_KEYS, each as long as ids (an ID listed twice makes two rows).
C2_ColumnsAsLongAsIds ==
    (Collected /\ ids # <<>>) =>
        /\ DOMAIN returned[1] = Keys
        /\ Cardinality(Keys) = 10
        /\ \A k \in Keys : Len(returned[1][k]) = Len(ids)

C2_Witness ==
    /\ Collected
    /\ ids = <<"b", "b">>
    /\ \A k \in Keys : Len(returned[1][k]) = 2

\* get_vacancy alone has been applied to the detail record
Applied == vacancy # None /\ record # None

SalaryIn == vacancy[1].salary

OutBound(k) == IF k = "from" THEN record[1][5] ELSE record[1][6]

\* rawValue * grossFactor / rateTable[currency] of bound k as a rational:
\* grossFactor is 87/100 for a salary marked gross, 1 otherwise
ExactQuotient(k) ==
    LET salary == SalaryIn[1]
        g      == IF salary.gross = Some(TRUE) THEN <<87, 100>> ELSE <<1, 1>>
        rate   == Rates[salary.currency]
    IN  <<salary[k][1] * g[1] * rate[2], g[2] * rate[1]>>

PresentIn(k) == ~IsNone(SalaryIn) /\ ~IsNone(SalaryIn[1][k])

\* C3 as stated: a present bound is normalized to
\* round(rawValue * grossFactor / rateTable[currency]), the nearest integer.
C3_BoundIsRounded ==
    Applied =>
        \A k \in {"from", "to"} :
            PresentIn(k) =>
                OutBound(k) = Some(PyRound(ExactQuotient(k)[1], ExactQuotient(k)[2]))

\* C3 amended: a present bound is normalized to the quotient
\* rawValue * grossFactor / rateTable[currency] truncated toward zero (raw
\* values are not negative: the largest integer not above the quotient),
\* with the same gross factor for both bounds.
C3_BoundIsTruncated ==
    Applied =>
        \A k \in {"from", "to"} :
            PresentIn(k) =>
                LET q == ExactQuotient(k)
                IN  /\ OutBound(k) # None
                    /\ OutBound(k)[1] * q[2] <= q[1]
                    /\ q[1] < (OutBound(k)[1] + 1) * q[2]

\* 1 * 0.87 / 1 = 0.87 becomes 0 and 3 * 0.87 / 1 = 2.61 becomes 2
C3_Witness ==
    /\ Applied
    /\ SalaryIn = Some(Salary(Some(1), Some(3), "RUR", Some(TRUE)))
    /\ OutBound("from") = Some(0)
    /\ OutBound("to") = Some(2)

\* C4: each bound is normalized on its own: a bound that is None stays
\* None, a bound that is present stays present, and a raw 0 becomes 0.
C4_AbsentIsNotZero ==
    (Applied /\ ~IsNone(SalaryIn)) =>
        \A k \in {"from", "to"} :
            /\ IsNone(SalaryIn[1][k]) <=> IsNone(OutBound(k))
            /\ SalaryIn[1][k] = Some(0) => OutBound(k) = Some(0)

C4_Witness ==
    /\ Applied
    /\ ~IsNone(SalaryIn)
    /\ SalaryIn[1].from = None
    /\ SalaryIn[1].to = Some(0)
    /\ OutBound("from") = None
    /\ OutBound("to") = Some(0)

\* C5: the "Salary" field is true exactly when the detail record has a
\* salary block; without one the field is false, both bounds are None and
\* the rate table is not looked up.
C5_HasSalaryIffBlock ==
    Applied =>
        /\ record[1][4] <=> ~IsNone(SalaryIn)
        /\ IsNone(SalaryIn) =>
              /\ record[1][4] = FALSE
              /\ OutBound("from") = None
              /\ OutBound("to") = None
              /\ lookups = 0

C5_Witness ==
    /\ Applied
    /\ IsNone(SalaryIn)
    /\ record[1][4] = FALSE
    /\ OutBound("from") = None
    /\ OutBound("to") = None
    /\ lookups = 0

\* C6: once a page response lacks "items", no further page is requested
\* (every later request is a detail request), ids is what the earlier pages
\* carried, the harvest is over without a request error, and the futures of
\* the fetch stage are one per position of exactly that ids.
C6_StopsAtMissingItems ==
    \A j \in 1..Len(requests) :
        (IsPage(requests[j]) /\ requests[j][3] = "noitems") =>
            /\ \A k \in (j + 1)..Len(requests) : IsDetail(requests[k])
            /\ ids = ConcatItems(SubSeq(requests, 1, j - 1))
            /\ pc \notin {"cachecheck", "discovery", "harvest"}
            /\ error # "RequestError"
            /\ pc \in {"fetch", "aborting", "assemble", "cachewrite", "done"}
                  => DOMAIN futures = 1..Len(ids)
            /\ \A k \in (j + 1)..Len(requests) : requests[k][2] \in 1..Len(ids)

\* "pages" is 2, page 0 carries "a", page 1 lacks "items": page 2 is not
\* requested and the run returns the one row
C6_Witness ==
    /\ pc = "done"
    /\ num_pages = 2
    /\ requests = << <<"search">>, <<"page", 0, "items", <<"a">>>>,
                     <<"page", 1, "noitems", <<>>>>, <<"detail", 1>> >>
    /\ returned[1]["Ids"] = <<"a">>

\* C7: a run that misses the cache issues the search request first and only
\* once; the page requests are for the indexes 0, 1, 2, ... in this order,
\* none above num_pages; and when every page carried items the harvest
\* ends with num_pages + 1 page requests.
C7_PageWalk ==
    /\ pc \in {"harvest", "submit", "fetch", "aborting", "assemble",
               "cachewrite"} => requests # <<>>
    /\ requests # <<>> =>
          /\ IsSearch(requests[1])
          /\ \A j \in 2..Len(requests) : ~IsSearch(requests[j])
          /\ \A k \in 1..Len(PageRequests) :
                /\ PageRequests[k][2] = k - 1
                /\ PageRequests[k][2] <= num_pages
          /\ ( /\ pc \notin {"discovery", "harvest"}
               /\ error # "RequestError"
               /\ \A k \in 1..Len(PageRequests) : PageRequests[k][3] = "items" )
             => Len(PageRequests) = num_pages + 1

C7_Witness ==
    /\ pc = "submit"
    /\ num_pages = 2
    /\ Len(requests) = 4
    /\ Len(PageRequests) = 3
    /\ \A k \in 1..3 : PageRequests[k][3] = "items" /\ PageRequests[k][2] = k - 1

\* C8: ids is the concatenation of the items of the pages fetched so far,
\* page after page and in the order within each page, nothing left out:
\* its length is the sum of the pages' item counts.
C8_IdsAreConcatenation ==
    /\ ids = ConcatItems(requests)
    /\ Len(ids) = SumItems(requests)

\* the same ID on page 0 and on page 1 is harvested twice
C8_Witness ==
    /\ pc = "submit"
    /\ PageRequests = << <<"page", 0, "items", <<"b">>>>,
                         <<"page", 1, "items", <<"b">>>> >>
    /\ ids = <<"b", "b">>

\* C9: with refresh the cache file is never loaded, and a run that returns
\* has collected its result from the remote service and left it as the
\* cache entry of the query text.
C9_RefreshOverwrites ==
    refresh =>
        /\ cache_loads = 0
        /\ pc = "done" =>
              /\ requests # <<>>
              /\ returned # None
              /\ cache[cache_hash(query)] = PickleDump(returned[1])

\* a complete entry was there before the run and is replaced by another
C9_Witness ==
    /\ refresh
    /\ pc = "done"
    /\ Len(cache_before[cache_hash(query)]) = 2
    /\ cache_before[cache_hash(query)] # cache[cache_hash(query)]
    /\ cache[cache_hash(query)] = PickleDump(returned[1])

\* C10 as stated: without refresh, an entry that was absent, empty or cut
\* short when the run was called makes the run collect afresh, and no
\* exception of the cache read reaches the caller.
C10_BadEntryIsAMiss ==
    ( /\ pc \notin {"idle", "cachecheck"}
      /\ ~refresh
      /\ Len(cache_before[cache_hash(query)]) # 2 )
    => /\ requests # <<>> \/ pc = "discovery"
       /\ error \notin {"FileNotFoundError", "UnpicklingError", "EOFError"}

\* C11 as stated: a run whose cache write fails (open or dump raises) still
\* returns the result it had assembled.
C11_WriteFailureIsNotFatal ==
    (result # None /\ pc \in {"done", "failed"}) =>
        /\ pc = "done"
        /\ returned = result

DetailRequests == SelectSeq(requests, IsDetail)

\* C12: a failed search request, page request or detail fetch fails the
\* run: the error reaches the caller, nothing is returned (no result built
\* from the fetches that succeeded), the failed request is the last of its
\* stage and no request is made twice.
C12_AnyFailureIsFatal ==
    /\ error # "" <=> pc = "failed"
    /\ pc = "failed" => returned = None
    /\ (\E p \in DOMAIN futures : futures[p] = <<"failed">>) =>
          /\ pc \in {"fetch", "aborting", "failed"}
          /\ returned = None
          /\ result = None
    /\ \A j \in 1..Len(requests) :
          (IsPage(requests[j]) /\ requests[j][3] = "error") =>
              /\ j = Len(requests)
              /\ pc = "failed"
              /\ error = "RequestError"
    /\ error = "RequestError" =>
          /\ futures = <<>>
          /\ \/ requests = << <<"search">> >>
             \/ /\ IsPage(requests[Len(requests)])
                /\ requests[Len(requests)][3] = "error"
    /\ LET details == DetailRequests
           pages == PageRequests
       IN  /\ \A j, k \in 1..Len(details) :
                 details[j][2] = details[k][2] => j = k
           /\ \A j, k \in 1..Len(pages) :
                 pages[j][2] = pages[k][2] => j = k

\* the fetch of position 1 succeeded, that of position 2 raised
C12_Witness ==
    /\ pc = "failed"
    /\ error = "FetchError"
    /\ Len(futures) = 2
    /\ IsDone(futures[1])
    /\ futures[2] = <<"failed">>
    /\ Len(jobs_list) = 1
    /\ returned = None

\* the cache file of the current query as the run found it
EntryFound == cache_before[cache_hash(query)]

\* C13: a run without refresh that finds the pickle an earlier run dumped
\* for its text returns a result equal to the dumped one and asks the
\* remote service nothing; a run that finds no file for its text is a miss:
\* it raises nothing at the cache and goes on to collect.
C13_CacheRoundTrip ==
    (query # NoQuery /\ ~refresh /\ pc # "cachecheck") =>
        /\ Len(EntryFound) = 2 =>
              /\ pc = "done"
              /\ returned # None
              /\ EntryFound = PickleDump(returned[1])
              /\ requests = <<>>
        /\ EntryFound = Absent =>
              /\ error \notin {"FileNotFoundError", "EOFError",
                               "UnpicklingError"}
              /\ cache_loads = 1
              /\ pc = "discovery" \/ requests # <<>>

\* the second run reads what the first one wrote
C13_Witness ==
    /\ pc = "done"
    /\ ~refresh
    /\ cache_loads = 1
    /\ requests = <<>>
    /\ returned # None
    /\ EntryFound = PickleDump(returned[1])
    /\ runs_left = MaxRuns - 2

\* the steps of collect_vacancies in the order of its lines
StageOrder ==
    { <<"idle", "cachecheck">>, <<"done", "cachecheck">>,
      <<"failed", "cachecheck">>,
      <<"cachecheck", "done">>, <<"cachecheck", "discovery">>,
      <<"cachecheck", "failed">>,
      <<"discovery", "harvest">>, <<"discovery", "failed">>,
      <<"harvest", "harvest">>, <<"harvest", "submit">>,
      <<"harvest", "failed">>,
      <<"submit", "fetch">>,
      <<"fetch", "fetch">>, <<"fetch", "assemble">>,
      <<"fetch", "aborting">>, <<"aborting", "aborting">>,
      <<"aborting", "failed">>,
      <<"assemble", "cachewrite">>, <<"assemble", "failed">>,
      <<"cachewrite", "done">>, <<"cachewrite", "failed">> }

AllFetchesDone == \A p \in DOMAIN futures : IsDone(futures[p])

C14_StageInvariant ==
    /\ \A j \in 1..Len(requests) : IsSearch(requests[j]) <=> j = 1
    /\ \A j, k \in 1..Len(requests) :
          (IsDetail(requests[j]) /\ IsPage(requests[k])) => k < j
    /\ cache # cache_before =>
          /\ pc \in {"done", "failed"}
          /\ requests # <<>>
          /\ result # None
          /\ AllFetchesDone
          /\ Len(futures) = Len(ids)
    /\ pc \in {"assemble", "cachewrite"} =>
          /\ AllFetchesDone
          /\ Len(futures) = Len(ids)

C14_StageStep ==
    /\ <<pc, pc'>> \in StageOrder
    /\ (pc = "cachecheck" /\ pc' = "done") =>
          /\ requests' = <<>>
          /\ cache' = cache
          /\ cache' = cache_before'
    /\ requests' # requests =>
          \/ pc' = "cachecheck" /\ requests' = <<>>
          \/ pc \in {"discovery", "harvest", "fetch"}
    /\ cache' # cache =>
          /\ pc = "cachewrite"
          /\ pc' \in {"done", "failed"}
          /\ cache = cache_before

\* C14: a run goes through cache check, then either returns the cached
\* value (no request made, no cache file written) or goes through
\* discovery, page harvest, detail fetch, assembly and cache write in this
\* order: the search request is the first request, every page request
\* comes before every detail request, every fetch has ended before the
\* cache file is written, and the file is written at most once, by the
\* last step of the run.
C14_OrchestrationOrder == []C14_StageInvariant /\ [][C14_StageStep]_vars

\* a miss run that went through every stage and wrote the cache file
C14_Witness ==
    /\ pc = "done"
    /\ cache # cache_before
    /\ Len(requests) = 3
    /\ IsSearch(requests[1])
    /\ IsPage(requests[2])
    /\ IsDetail(requests[3])
    /\ returned = result

\* the text without every "<", the first ">" after it and what lies between
RECURSIVE FirstClose(_, _)
FirstClose(s, j) ==
    IF j > Len(s) THEN 0
    ELSE IF s[j] = ">" THEN j
    ELSE FirstClose(s, j + 1)

RECURSIVE OutsideTags(_, _)
OutsideTags(s, i) ==
    IF i > Len(s) THEN <<>>
    ELSE IF s[i] = "<" /\ FirstClose(s, i + 1) # 0
         THEN OutsideTags(s, FirstClose(s, i + 1) + 1)
         ELSE <<s[i]>> \o OutsideTags(s, i + 1)

\* C15 as stated: what clean_tags returns has no "<" with a ">" somewhere
\* after it, and is the text given with the tags taken out and nothing else
\* changed.
C15_StripsEveryTag ==
    clean_text # None =>
        /\ \A i, j \in 1..Len(clean_text[1]) :
              (clean_text[1][i] = "<" /\ clean_text[1][j] = ">") => j < i
        /\ clean_text[1] = OutsideTags(html_text, 1)

\* the positions of ids whose fetch has been started
Fetched == {p \in DOMAIN futures : futures[p] \notin {<<"queued">>, <<"cancelled">>}}

InFlight == {p \in DOMAIN futures : futures[p] = <<"running">>}

Ended(p) == IsDone(futures[p]) \/ futures[p] = <<"failed">>

\* C16: never more than max_workers fetches run at once; with max_workers
\* = 1 the fetch of a position starts only when the fetch of the position
\* before it has ended; every position whose fetch was started has exactly
\* one detail request, and when the fetch stage ends without a failure
\* every position of ids has one.
C16_BoundedPool ==
    /\ Cardinality(InFlight) <= max_workers
    /\ max_workers = 1 =>
          \A p \in Fetched : \A o \in 1..(p - 1) : Ended(o)
    /\ LET details == DetailRequests
           fetched == Fetched
       IN  /\ max_workers = 1 =>
                 \A j \in 1..Len(details) : details[j][2] = j
           /\ \A j, k \in 1..Len(details) :
                 details[j][2] = details[k][2] => j = k
           /\ {details[j][2] : j \in 1..Len(details)} = fetched
    /\ (pc \in {"assemble", "cachewrite", "done"} /\ requests # <<>>) =>
          /\ Len(futures) = Len(ids)
          /\ Fetched = 1..Len(ids)

\* one worker: the second fetch runs after the first has ended
C16_Witness ==
    /\ pc = "fetch"
    /\ max_workers = 1
    /\ Len(ids) = 2
    /\ IsDone(futures[1])
    /\ futures[2] = <<"running">>
    /\ Len(DetailRequests) = 2

\* C17 as stated: every cache file is absent or the complete pickle of a
\* result, never empty or cut short; a run that fails leaves every cache
\* file as it found it, and a run that collected and returned leaves the
\* pickle of what it returned.
C17_EntryAbsentOrComplete ==
    /\ \A f \in CacheFiles : cache[f] = Absent \/ Len(cache[f]) = 2
    /\ pc = "failed" => cache = cache_before
    /\ (pc = "done" /\ requests # <<>>) =>
          cache[cache_hash(query)] = PickleDump(returned[1])

\* C18: the cache file is named by the text of the query alone: when a call
\* has dumped its result for a text, a later call without refresh for the
\* same text, whatever its area, returns that result and makes no remote
\* request.
C18_KeyIsTextOnly ==
    (query # NoQuery /\ ~refresh /\ pc # "cachecheck"
        /\ cache = cache_before /\ written[query.text] # None) =>
        /\ written[query.text][1].query.text = query.text
        /\ pc = "done"
        /\ returned = Some(written[query.text][1].result)
        /\ requests = <<>>

\* the call returns what a call for the same text and another area dumped
C18_Witness ==
    /\ pc = "done"
    /\ ~refresh
    /\ requests = <<>>
    /\ written[query.text] # None
    /\ written[query.text][1].query.text = query.text
    /\ written[query.text][1].query.area # query.area
    /\ returned = Some(written[query.text][1].result)

\* C19: a run whose pages listed no ID at all returns nothing: it passes
\* the fetch stage without a fetch, fails in the assembly (IndexError) and
\* leaves the cache as it found it.
C19_NoIdsFailsInAssembly ==
    (ids = <<>> /\ requests # <<>>) =>
        /\ returned = None
        /\ result = None
        /\ cache = cache_before
        /\ pc \notin {"cachewrite", "done"}
        /\ DetailRequests = <<>>
        /\ pc = "assemble" =>
              /\ jobs_list = <<>>
              /\ AssembleRaises(Unzip(jobs_list))
        /\ (pc = "failed" /\ error # "RequestError") => error = "IndexError"

\* two pages with empty item lists, then the failure in the assembly
C19_Witness ==
    /\ pc = "failed"
    /\ error = "IndexError"
    /\ ids = <<>>
    /\ num_pages = 1
    /\ requests = << <<"search">>, <<"page", 0, "items", <<>>>>,
                     <<"page", 1, "items", <<>>>> >>
    /\ returned = None
    /\ cache = cache_before

====
